---- MODULE Spec2Model ----
(***************************************************************************)
(* Sparse feature indexing of distributed/new_features/data/dataset.py:    *)
(* the class-level vocabulary registry, the offset table, the column       *)
(* encoder and the two build_trainset variants (DatasetPure, DatasetFeat). *)
(***************************************************************************)
EXTENDS Integers, Sequences, FiniteSets, TLC

(* sparse_unique_vals: the dict on Dataset, shared by both derived classes. *)
(* user_indices, item_indices: the attribute each derived class sees.      *)
(* call, result: the last method call and what it returned or raised.      *)
(* ncalls: build_trainset calls made with new arguments; repeat: the last  *)
(* call had the arguments of the one before it.                            *)
VARIABLES sparse_unique_vals, user_indices, item_indices, call, result, ncalls, repeat

vars == <<sparse_unique_vals, user_indices, item_indices, call, result, ncalls, repeat>>

(* ------------------------------ bounds --------------------------------- *)
(* Distinct raw ids, rows of a table, build_trainset calls in a run. *)
MaxVal == 2
MaxRows == 2
MaxCalls == 2

(* Raw values of a column. *)
Vals == 1..MaxVal

(* The two derived classes; the base class is never called directly. *)
Classes == {"DatasetPure", "DatasetFeat"}

(* Modes handed to the encoder: the two valid ones and one that is neither. *)
Modes == {"train", "test", "predict"}

Required == {"user", "item", "label"}

(* ------------------------------ helpers -------------------------------- *)
Range(s) == {s[i] : i \in 1..Len(s)}

SeqsUpTo(S, n) == UNION {[1..k -> S] : k \in 0..n}

Min(S) == CHOOSE x \in S : \A y \in S : x <= y

RECURSIVE SortedSeq(_)
SortedSeq(S) == IF S = {} THEN <<>> ELSE <<Min(S)>> \o SortedSeq(S \ {Min(S)})

(* np.unique: the sorted distinct values of a column. *)
Unique(values) == SortedSeq(Range(values))

(* Variant of BinSearch: side "right", the first position above v. *)
RECURSIVE BinSearch_right(_, _, _, _)
BinSearch_right(a, v, lo, hi) ==
    IF lo >= hi THEN lo
    ELSE LET mid == (lo + hi) \div 2
         IN IF a[mid + 1] <= v THEN BinSearch_right(a, v, mid + 1, hi)
                               ELSE BinSearch_right(a, v, lo, mid)

(* np.searchsorted(a, v), side "left": binary search for the first position *)
(* whose element is not below v; 0-based.                                   *)
RECURSIVE BinSearch(_, _, _, _)
BinSearch(a, v, lo, hi) ==
    IF lo >= hi THEN lo
    ELSE LET mid == (lo + hi) \div 2
         IN IF a[mid + 1] < v THEN BinSearch(a, v, mid + 1, hi)
                              ELSE BinSearch(a, v, lo, mid)

SearchSorted(a, values) == [i \in 1..Len(values) |-> BinSearch(a, values[i], 0, Len(a))]

(* np.in1d(values, uniques, invert=True) *)
NotIn1d(values, uniques) == [i \in 1..Len(values) |-> values[i] \notin Range(uniques)]

RECURSIVE Select(_, _)
Select(values, mask) ==
    IF values = <<>> THEN <<>>
    ELSE (IF Head(mask) THEN <<Head(values)>> ELSE <<>>) \o Select(Tail(values), Tail(mask))

(* Dataset.check_unknown: np.setdiff1d with assume_unique=True keeps the    *)
(* order of values and filters them by membership; the mask is in1d.        *)
(* _sparse_indices reads the mask only.                                     *)
check_unknown(values, uniques) ==
    [diff |-> Select(values, NotIn1d(values, uniques)),
     mask |-> NotIn1d(values, uniques)]

(* Variant of _sparse_indices: test mode without the override of the       *)
(* unknown entries.                                                        *)
_sparse_indices_no_override(values, unique, mode) ==
    IF mode = "test" \/ mode = "train" THEN
        [status |-> "ok",
         indices |-> [i \in 1..Len(values) |-> BinSearch(unique, values[i], 0, Len(unique))]]
    ELSE [status |-> "ValueError", indices |-> <<>>]

(* Dataset._sparse_indices *)
_sparse_indices(values, unique, mode) ==
    IF mode = "test" THEN
        LET cu == check_unknown(values, unique)
            col_indices == SearchSorted(unique, values)
        IN [status |-> "ok",
            indices |-> [i \in 1..Len(values) |->
                            IF cu.mask[i] THEN Len(unique) ELSE col_indices[i]]]
    ELSE IF mode = "train" THEN
        [status |-> "ok", indices |-> SearchSorted(unique, values)]
    ELSE [status |-> "ValueError", indices |-> <<>>]

(* np.cumsum *)
RECURSIVE CumSum(_)
CumSum(s) ==
    IF Len(s) = 0 THEN <<>>
    ELSE LET front == CumSum(SubSeq(s, 1, Len(s) - 1))
         IN Append(front, (IF Len(front) = 0 THEN 0 ELSE front[Len(front)]) + s[Len(s)])

(* Variant of _get_feature_offset: Feat takes the bare vocabulary sizes too. *)
_get_feature_offset_no_slot(cls, sparse_col, reg) ==
    IF \E i \in 1..Len(sparse_col) : sparse_col[i] \notin DOMAIN reg
    THEN [status |-> "KeyError", offset |-> <<>>]
    ELSE [status |-> "ok",
          offset |-> CumSum(<<0>> \o [i \in 1..Len(sparse_col) |-> Len(reg[sparse_col[i]])])]

(* Dataset._get_feature_offset: a column without a registry entry raises    *)
(* KeyError; Pure takes the vocabulary sizes, Feat one more per column.     *)
_get_feature_offset(cls, sparse_col, reg) ==
    IF \E i \in 1..Len(sparse_col) : sparse_col[i] \notin DOMAIN reg
    THEN [status |-> "KeyError", offset |-> <<>>]
    ELSE LET unique_values ==
                 [i \in 1..Len(sparse_col) |->
                     IF cls = "DatasetPure" THEN Len(reg[sparse_col[i]])
                                            ELSE Len(reg[sparse_col[i]]) + 1]
         IN [status |-> "ok", offset |-> CumSum(<<0>> \o unique_values)]

(* ------------------------------ inputs --------------------------------- *)
None == <<>>

Some(x) == <<x>>

(* A table is its row count and its named columns (pandas.DataFrame).      *)
Columns(n) == [1..n -> Vals]

(* The sorted vocabularies np.unique can produce over Vals. *)
Vocabs == {SortedSeq(S) : S \in SUBSET Vals}

(* Every row carries the same label; labels are only passed through.       *)
LabelColumn(n) == [i \in 1..n |-> 1]

(* The item a user interacts with: two users share an item. *)
ItemOf(u) == (u + 1) \div 2

ItemColumn(users) == [r \in 1..Len(users) |-> ItemOf(users[r])]

(* Every step of the encoding works row by row, so the tables list their   *)
(* rows in user order.                                                     *)
UserColumns(n) == {u \in Columns(n) : \A r \in 1..(n - 1) : u[r] <= u[r + 1]}

(* The tables with all three required columns: one interaction per row.    *)
FullTables ==
    UNION {{[len |-> n, col |-> [c \in Required |->
                 IF c = "user" THEN u
                 ELSE IF c = "item" THEN ItemColumn(u) ELSE LabelColumn(n)]] :
            u \in UserColumns(n)} : n \in 0..MaxRows}

Drop(t, c) == [len |-> t.len, col |-> [x \in (DOMAIN t.col) \ {c} |-> t.col[x]]]

(* Tables that lack one of the required columns. *)
MissingTables == {Drop(t, c) : t \in {x \in FullTables : x.len <= 1}, c \in Required}

Tables == FullTables \cup MissingTables

SparseNames == {"user", "item"}

(* Lists of sparse column names, without repetition. *)
SparseCols ==
    {s \in SeqsUpTo(SparseNames, Cardinality(SparseNames)) :
        \A i, j \in 1..Len(s) : i # j => s[i] # s[j]}

NoTable == [len |-> 0, col |-> [c \in {} |-> <<>>]]

(* ----------------------- the stateful class methods -------------------- *)
Put(reg, k, v) == [x \in (DOMAIN reg) \cup {k} |-> IF x = k THEN v ELSE reg[x]]

(* Variant of _check_col_names: the label column is not looked for. *)
_check_col_names_no_label(data) == {"user", "item"} \subseteq DOMAIN data.col

(* Dataset._check_col_names *)
_check_col_names(data) == Required \subseteq DOMAIN data.col

(* Variant of SetLoop: a vocabulary already present is extended instead of *)
(* replaced.                                                               *)
RECURSIVE SetLoop_append(_, _, _, _)
SetLoop_append(train_data, sparse_col, i, reg) ==
    IF i > Len(sparse_col) THEN [status |-> "ok", reg |-> reg]
    ELSE IF sparse_col[i] \notin DOMAIN train_data.col
         THEN [status |-> "KeyError", reg |-> reg]
         ELSE SetLoop_append(train_data, sparse_col, i + 1,
                  Put(reg, sparse_col[i],
                      (IF sparse_col[i] \in DOMAIN reg THEN reg[sparse_col[i]] ELSE <<>>)
                          \o Unique(train_data.col[sparse_col[i]])))

(* Dataset._set_sparse_unique_vals: column by column; a column the table    *)
(* lacks raises KeyError after the earlier columns were stored.             *)
RECURSIVE SetLoop(_, _, _, _)
SetLoop(train_data, sparse_col, i, reg) ==
    IF i > Len(sparse_col) THEN [status |-> "ok", reg |-> reg]
    ELSE IF sparse_col[i] \notin DOMAIN train_data.col
         THEN [status |-> "KeyError", reg |-> reg]
         ELSE SetLoop(train_data, sparse_col, i + 1,
                      Put(reg, sparse_col[i], Unique(train_data.col[sparse_col[i]])))

_set_sparse_unique_vals(train_data, sparse_col, reg) == SetLoop(train_data, sparse_col, 1, reg)

(* The loop of Dataset._get_sparse_indices_matrix: acc carries the class's  *)
(* user_indices / item_indices and the columns encoded so far.              *)
RECURSIVE MatrixLoop(_, _, _, _, _, _)
MatrixLoop(data, sparse_col, mode, reg, i, acc) ==
    IF i > Len(sparse_col) THEN acc
    ELSE LET col == sparse_col[i] IN
         IF col \notin DOMAIN data.col \/ col \notin DOMAIN reg
         THEN [acc EXCEPT !.status = "KeyError"]
         ELSE LET enc == _sparse_indices(data.col[col], reg[col], mode) IN
              IF enc.status # "ok"
              THEN [acc EXCEPT !.status = enc.status]
              ELSE MatrixLoop(data, sparse_col, mode, reg, i + 1,
                       [status |-> "ok",
                        ui |-> IF col = "user" THEN Some(enc.indices) ELSE acc.ui,
                        ii |-> IF col = "item" THEN Some(enc.indices) ELSE acc.ii,
                        cols |-> Append(acc.cols, enc.indices)])

(* Variant of _get_sparse_indices_matrix: in test mode the values of the   *)
(* encoded columns are added to their vocabularies.                        *)
_get_sparse_indices_matrix_learning(cls, data, sparse_col, mode, reg, ui, ii) ==
    LET acc == MatrixLoop(data, sparse_col, mode, reg, 1,
                          [status |-> "ok", ui |-> ui, ii |-> ii, cols |-> <<>>])
        feature_offset == _get_feature_offset(cls, sparse_col, reg).offset
        learned == [c \in DOMAIN reg |->
                       IF mode = "test" /\ c \in Range(sparse_col) /\ c \in DOMAIN data.col
                       THEN Unique(reg[c] \o data.col[c]) ELSE reg[c]]
    IN IF acc.status # "ok"
       THEN [status |-> acc.status, reg |-> reg, ui |-> acc.ui, ii |-> acc.ii,
             matrix |-> None, offset |-> <<>>]
       ELSE [status |-> "ok", reg |-> learned, ui |-> acc.ui, ii |-> acc.ii,
             matrix |-> Some([i \in 1..Len(sparse_col) |->
                                [r \in 1..data.len |-> acc.cols[i][r] + feature_offset[i]]]),
             offset |-> feature_offset]

(* Dataset._get_sparse_indices_matrix: the encoded columns shifted by       *)
(* feature_offset[:-1].  reg, ui, ii are the class attributes after the     *)
(* call; the matrix is kept column by column.                               *)
_get_sparse_indices_matrix(cls, data, sparse_col, mode, reg, ui, ii) ==
    LET acc == MatrixLoop(data, sparse_col, mode, reg, 1,
                          [status |-> "ok", ui |-> ui, ii |-> ii, cols |-> <<>>])
        feature_offset == _get_feature_offset(cls, sparse_col, reg).offset
    IN IF acc.status # "ok"
       THEN [status |-> acc.status, reg |-> reg, ui |-> acc.ui, ii |-> acc.ii,
             matrix |-> None, offset |-> <<>>]
       ELSE [status |-> "ok", reg |-> reg, ui |-> acc.ui, ii |-> acc.ii,
             matrix |-> Some([i \in 1..Len(sparse_col) |->
                                [r \in 1..data.len |-> acc.cols[i][r] + feature_offset[i]]]),
             offset |-> feature_offset]

(* to_numpy(dtype=np.float32) of the label column: the labels used here are *)
(* small integers, which float32 represents exactly.                        *)
Float32(labels) == [i \in 1..Len(labels) |-> labels[i]]

Failed(status, reg, ui, ii) ==
    [status |-> status, reg |-> reg, ui |-> ui, ii |-> ii,
     users |-> None, items |-> None, labels |-> None, matrix |-> None, offset |-> <<>>]

(* DatasetPure.build_trainset / DatasetFeat.build_trainset (dense_col=None, *)
(* neg=False).  Returns the class attributes after the call and the fields  *)
(* handed to TransformedSet; matrix / offset are train_sparse_indices and   *)
(* the offsets it was shifted by.  Pure encodes ["user", "item"], Feat      *)
(* encodes sparse_col.  train_data["label"] raises KeyError for a table    *)
(* without labels, which _check_col_names lets through in no case.          *)
build_trainset(cls, train_data, sparse_col, reg, ui, ii) ==
    IF ~_check_col_names(train_data)
    THEN Failed("KeyError", reg, ui, ii)
    ELSE LET set == _set_sparse_unique_vals(train_data, sparse_col, reg) IN
         IF set.status # "ok"
         THEN Failed(set.status, set.reg, ui, ii)
         ELSE LET encoded == IF cls = "DatasetPure" THEN <<"user", "item">> ELSE sparse_col
                  m == _get_sparse_indices_matrix(cls, train_data, encoded, "train",
                                                  set.reg, ui, ii)
              IN IF m.status # "ok"
                 THEN Failed(m.status, m.reg, m.ui, m.ii)
                 ELSE IF "label" \notin DOMAIN train_data.col
                 THEN Failed("KeyError", m.reg, m.ui, m.ii)
                 ELSE [status |-> "ok", reg |-> m.reg, ui |-> m.ui, ii |-> m.ii,
                       users |-> m.ui, items |-> m.ii,
                       labels |-> Some(Float32(train_data.col["label"])),
                       matrix |-> m.matrix, offset |-> m.offset]

(* ------------------------------ the state ------------------------------ *)
NoResult ==
    [status |-> "none", indices |-> <<>>, mask |-> <<>>, diff |-> <<>>, offset |-> <<>>,
     matrix |-> None, users |-> None, items |-> None, labels |-> None]

NoCall ==
    [op |-> "none", cls |-> "Dataset", data |-> NoTable, sparse_col |-> <<>>,
     mode |-> "", values |-> <<>>, unique |-> <<>>]

BuildCall(cls, train_data, sparse_col) ==
    [NoCall EXCEPT !.op = "build_trainset", !.cls = cls, !.data = train_data,
                   !.sparse_col = sparse_col, !.mode = "train"]

BuildResult(b) ==
    [NoResult EXCEPT !.status = b.status, !.users = b.users, !.items = b.items,
                     !.labels = b.labels, !.matrix = b.matrix, !.offset = b.offset]

(* The class attributes of Dataset: an empty dict and two None; the derived *)
(* classes inherit user_indices / item_indices until they assign their own. *)
EmptyDict == [c \in {} |-> <<>>]

Init ==
    /\ sparse_unique_vals = EmptyDict
    /\ user_indices = [c \in Classes |-> None]
    /\ item_indices = [c \in Classes |-> None]
    /\ call = NoCall
    /\ result = NoResult
    /\ ncalls = 0
    /\ repeat = FALSE

Record(c, r) ==
    /\ ncalls' = IF c = call THEN ncalls ELSE ncalls + 1
    /\ call' = c
    /\ result' = r
    /\ repeat' = (c = call)

BuildTrainset(cls, train_data, sparse_col) ==
    LET b == build_trainset(cls, train_data, sparse_col, sparse_unique_vals,
                            user_indices[cls], item_indices[cls])
    IN /\ sparse_unique_vals' = b.reg
       /\ user_indices' = [user_indices EXCEPT ![cls] = b.ui]
       /\ item_indices' = [item_indices EXCEPT ![cls] = b.ii]
       /\ Record(BuildCall(cls, train_data, sparse_col), BuildResult(b))

(* build_trainset called once more with the arguments of the call just made *)
BuildAgain ==
    /\ call.op = "build_trainset"
    /\ ~repeat
    /\ BuildTrainset(call.cls, call.data, call.sparse_col)

(* The caller drops what the last call returned; the class attributes stay. *)
Return ==
    /\ call.op # "none"
    /\ call' = NoCall
    /\ result' = NoResult
    /\ repeat' = FALSE
    /\ UNCHANGED <<sparse_unique_vals, user_indices, item_indices, ncalls>>

GetSparseIndicesMatrix(cls, data, sparse_col, mode) ==
    LET m == _get_sparse_indices_matrix(cls, data, sparse_col, mode, sparse_unique_vals,
                                        user_indices[cls], item_indices[cls])
    IN /\ sparse_unique_vals' = m.reg
       /\ user_indices' = [user_indices EXCEPT ![cls] = m.ui]
       /\ item_indices' = [item_indices EXCEPT ![cls] = m.ii]
       /\ Record([NoCall EXCEPT !.op = "_get_sparse_indices_matrix", !.cls = cls,
                                !.data = data, !.sparse_col = sparse_col, !.mode = mode],
                 [NoResult EXCEPT !.status = m.status, !.matrix = m.matrix,
                                  !.offset = m.offset])

GetFeatureOffset(cls, sparse_col) ==
    LET o == _get_feature_offset(cls, sparse_col, sparse_unique_vals)
    IN /\ UNCHANGED <<sparse_unique_vals, user_indices, item_indices>>
       /\ Record([NoCall EXCEPT !.op = "_get_feature_offset", !.cls = cls,
                                !.sparse_col = sparse_col],
                 [NoResult EXCEPT !.status = o.status, !.offset = o.offset])

SparseIndices(values, unique, mode) ==
    LET e == _sparse_indices(values, unique, mode)
    IN /\ UNCHANGED <<sparse_unique_vals, user_indices, item_indices>>
       /\ Record([NoCall EXCEPT !.op = "_sparse_indices", !.values = values,
                                !.unique = unique, !.mode = mode],
                 [NoResult EXCEPT !.status = e.status, !.indices = e.indices])

CheckUnknown(values, unique) ==
    LET cu == check_unknown(values, unique)
    IN /\ UNCHANGED <<sparse_unique_vals, user_indices, item_indices>>
       /\ Record([NoCall EXCEPT !.op = "check_unknown", !.values = values,
                                !.unique = unique],
                 [NoResult EXCEPT !.status = "ok", !.diff = cu.diff, !.mask = cu.mask])

IsBuild == call.op = "build_trainset"

IsMatrix == call.op = "_get_sparse_indices_matrix"

(* ------------------- the build_trainset state machine ------------------ *)
Build ==
    /\ call.op = "none"
    /\ ncalls < MaxCalls
    /\ \E cls \in Classes, t \in Tables, sc \in SparseCols : BuildTrainset(cls, t, sc)

Next == Build \/ BuildAgain \/ Return

Spec == Init /\ [][Next]_vars

(* --------------- encoding against a registry that was built ------------ *)
(* The classes right after one successful build_trainset call.             *)
InitBuilt ==
    \E cls \in Classes, t \in FullTables, sc \in SparseCols :
        LET b == build_trainset(cls, t, sc, EmptyDict, None, None)
        IN /\ b.status = "ok"
           /\ sparse_unique_vals = b.reg
           /\ user_indices = [c \in Classes |-> IF c = cls THEN b.ui ELSE None]
           /\ item_indices = [c \in Classes |-> IF c = cls THEN b.ii ELSE None]
           /\ call = BuildCall(cls, t, sc)
           /\ result = BuildResult(b)
           /\ ncalls = 1
           /\ repeat = FALSE

(* An encoding call reads the registry and its arguments only, so each is  *)
(* made on the classes as the build left them.                             *)
QueryMatrix ==
    /\ IsBuild
    /\ \E cls \in Classes, t \in FullTables, sc \in SparseCols, mode \in Modes :
          GetSparseIndicesMatrix(cls, t, sc, mode)

QueryOffset ==
    /\ IsBuild
    /\ \E cls \in Classes, sc \in SparseCols : GetFeatureOffset(cls, sc)

QueryColumn ==
    /\ IsBuild
    /\ \E n \in 0..MaxRows : \E values \in Columns(n) : \E unique \in Vocabs :
          \/ \E mode \in Modes : SparseIndices(values, unique, mode)
          \/ CheckUnknown(values, unique)

NextQuery == QueryMatrix \/ QueryOffset \/ QueryColumn

SpecQuery == InitBuilt /\ [][NextQuery]_vars

(* ------------------------------ properties ----------------------------- *)
(* The 0-based rank of v among the distinct values of a column. *)
Rank(v, column) == Cardinality({x \in Range(column) : x < v})

Absent(v, vocabulary) == v \notin Range(vocabulary)

(* C1: every value in column i of the matrix returned by                   *)
(* _get_sparse_indices_matrix (also the one build_trainset computes) lies  *)
(* in [offset[i], offset[i+1]), for both variants and both modes.          *)
C1_GlobalIndexRange ==
    (IsMatrix \/ IsBuild) /\ result.status = "ok" =>
        LET m == result.matrix[1]
            offset == result.offset
        IN \A i \in 1..Len(m) : \A r \in 1..Len(m[i]) :
               offset[i] <= m[i][r] /\ m[i][r] < offset[i + 1]

(* C2: _get_feature_offset returns #columns + 1 entries, starting at 0,    *)
(* each step being the vocabulary size of the column, plus one for Feat    *)
(* and plus nothing for Pure.                                              *)
C2_OffsetTable ==
    call.op = "_get_feature_offset" /\ Range(call.sparse_col) \subseteq DOMAIN sparse_unique_vals =>
        /\ result.status = "ok"
        /\ Len(result.offset) = Len(call.sparse_col) + 1
        /\ result.offset[1] = 0
        /\ \A i \in 1..Len(call.sparse_col) :
               result.offset[i + 1] - result.offset[i] =
                   Len(sparse_unique_vals[call.sparse_col[i]])
                       + (IF call.cls = "DatasetFeat" THEN 1 ELSE 0)

C2_Witness ==
    /\ call.op = "_get_feature_offset"
    /\ call.cls = "DatasetFeat"
    /\ result.status = "ok"
    /\ Len(call.sparse_col) = 2
    /\ Len(sparse_unique_vals[call.sparse_col[1]]) = 2

(* C3: a build encodes every value of a sparse column whose vocabulary it  *)
(* has just built from the same table to the 0-based rank of the value     *)
(* among the distinct training values of that column.                      *)
C3_TrainRank ==
    IsBuild /\ result.status = "ok" =>
        /\ "user" \in Range(call.sparse_col) =>
               /\ Len(result.users[1]) = call.data.len
               /\ \A r \in 1..call.data.len :
                      result.users[1][r] = Rank(call.data.col["user"][r], call.data.col["user"])
        /\ "item" \in Range(call.sparse_col) =>
               /\ Len(result.items[1]) = call.data.len
               /\ \A r \in 1..call.data.len :
                      result.items[1][r] = Rank(call.data.col["item"][r], call.data.col["item"])

C3_Witness ==
    /\ IsBuild
    /\ result.status = "ok"
    /\ "user" \in Range(call.sparse_col)
    /\ call.data.col["user"] = <<2, 2>>
    /\ result.users = Some(<<0, 0>>)

(* C4: test-mode encoding never fails; a value absent from the vocabulary  *)
(* gets the reserved index size(vocabulary) and is flagged in the mask of  *)
(* check_unknown, a value present gets its sorted rank.                    *)
C4_TestUnknown ==
    /\ call.op = "_sparse_indices" /\ call.mode = "test" =>
           /\ result.status = "ok"
           /\ Len(result.indices) = Len(call.values)
           /\ \A i \in 1..Len(call.values) :
                  result.indices[i] = IF Absent(call.values[i], call.unique)
                                      THEN Len(call.unique)
                                      ELSE Rank(call.values[i], call.unique)
    /\ call.op = "check_unknown" =>
           /\ result.status = "ok"
           /\ Len(result.mask) = Len(call.values)
           /\ \A i \in 1..Len(call.values) :
                  result.mask[i] = Absent(call.values[i], call.unique)

(* A column whose values are all unseen: every row gets the reserved index. *)
C4_Witness ==
    /\ call.op = "_sparse_indices"
    /\ call.mode = "test"
    /\ Len(call.values) = 2
    /\ Len(call.unique) = 1
    /\ \A i \in 1..2 : call.values[i] < call.unique[1]
    /\ result.indices = <<1, 1>>

(* C5: train-mode encoding fails whenever a raw value is absent from the   *)
(* vocabulary; it returns no index for such a value.                       *)
C5_TrainUnknownFails ==
    /\ call.op = "_sparse_indices"
    /\ call.mode = "train"
    /\ \E i \in 1..Len(call.values) : Absent(call.values[i], call.unique)
    => result.status # "ok"

MissingRequired(data) == ~(Required \subseteq DOMAIN data.col)

(* C6: build_trainset of either variant fails with KeyError (the schema    *)
(* error) when "user", "item" or "label" is missing from the table, and    *)
(* the registry and the stored index vectors are what they were before.    *)
C6_SchemaError ==
    [][(call'.op = "build_trainset" /\ MissingRequired(call'.data)) =>
          /\ result'.status = "KeyError"
          /\ sparse_unique_vals' = sparse_unique_vals
          /\ user_indices' = user_indices
          /\ item_indices' = item_indices]_vars

(* A table without labels whose users are not the ones in the registry.    *)
C6_Witness ==
    /\ IsBuild
    /\ "label" \notin DOMAIN call.data.col
    /\ "user" \in DOMAIN call.data.col
    /\ "user" \in Range(call.sparse_col)
    /\ "user" \in DOMAIN sparse_unique_vals
    /\ Unique(call.data.col["user"]) # sparse_unique_vals["user"]
    /\ result.status = "KeyError"

(* C7: with a mode that is neither "train" nor "test", every call of       *)
(* _sparse_indices and of _get_sparse_indices_matrix fails with ValueError *)
(* (the invalid-mode error) and returns no indices.                        *)
C7_InvalidModeFails ==
    /\ call.op \in {"_sparse_indices", "_get_sparse_indices_matrix"}
    /\ call.mode \notin {"train", "test"}
    => result.status = "ValueError" /\ result.matrix = None /\ result.indices = <<>>

(* C8: no encoding call (_sparse_indices, check_unknown,                   *)
(* _get_feature_offset, _get_sparse_indices_matrix) changes the registry   *)
(* that was built.                                                         *)
C8_RegistryFrame ==
    [][call'.op \in {"_sparse_indices", "check_unknown", "_get_feature_offset",
                     "_get_sparse_indices_matrix"}
          => sparse_unique_vals' = sparse_unique_vals]_vars

(* A test-mode matrix was returned for a table holding an unseen user.     *)
C8_Witness ==
    /\ IsMatrix
    /\ call.mode = "test"
    /\ result.status = "ok"
    /\ "user" \in Range(call.sparse_col)
    /\ \E r \in 1..call.data.len : Absent(call.data.col["user"][r], sparse_unique_vals["user"])

(* C9: after a build the registry holds exactly the sparse columns of that *)
(* build, each the sorted distinct values of that build's table.           *)
C9_RegistryReplaced ==
    IsBuild /\ result.status = "ok" =>
        /\ DOMAIN sparse_unique_vals = Range(call.sparse_col)
        /\ \A c \in Range(call.sparse_col) :
               sparse_unique_vals[c] = SortedSeq(Range(call.data.col[c]))

(* C10: build_trainset called again with the arguments of the call just    *)
(* made returns the same vectors, labels, matrix and offsets and leaves    *)
(* the registry and the stored vectors as the first call left them.        *)
C10_Idempotent ==
    [][(call.op = "build_trainset" /\ call' = call) =>
          /\ result' = result
          /\ sparse_unique_vals' = sparse_unique_vals
          /\ user_indices' = user_indices
          /\ item_indices' = item_indices]_vars

(* The repeated build came after another build that left its own entry.    *)
C10_Witness ==
    /\ IsBuild
    /\ repeat
    /\ result.status = "ok"
    /\ ncalls = 2
    /\ "user" \in Range(call.sparse_col)
    /\ DOMAIN sparse_unique_vals # Range(call.sparse_col)

(* C11: a DatasetPure build on a table holding user, item and label, with  *)
(* any sparse_col, succeeds and encodes exactly the columns user and item  *)
(* against the vocabularies of that same table, with the offset table      *)
(* [0, #users, #users + #items].                                           *)
C11_PureEncodesUserItem ==
    IsBuild /\ call.cls = "DatasetPure" /\ ~MissingRequired(call.data) =>
        LET user == call.data.col["user"]
            item == call.data.col["item"]
            nu == Cardinality(Range(user))
            ni == Cardinality(Range(item))
        IN /\ result.status = "ok"
           /\ result.offset = <<0, nu, nu + ni>>
           /\ Len(result.matrix[1]) = 2
           /\ result.matrix[1][1] = [r \in 1..call.data.len |-> Rank(user[r], user)]
           /\ result.matrix[1][2] = [r \in 1..call.data.len |-> nu + Rank(item[r], item)]

(* C12: the user and item vectors a successful build hands to its          *)
(* TransformedSet are present, have one entry per row of that call's       *)
(* table, and hold the rank of the row's user / item among the distinct    *)
(* values of that table's column, whatever sparse_col lists and whatever   *)
(* builds came before.                                                     *)
C12_StandaloneVectors ==
    IsBuild /\ result.status = "ok" =>
        LET user == call.data.col["user"]
            item == call.data.col["item"]
        IN /\ result.users # None
           /\ result.items # None
           /\ result.users = Some([r \in 1..call.data.len |-> Rank(user[r], user)])
           /\ result.items = Some([r \in 1..call.data.len |-> Rank(item[r], item)])

====
